---- MODULE Spec2Model ----
(***************************************************************************)
(* Model of tools/SourceKit/lib/SwiftLang/SwiftTypeContextInfo.cpp:        *)
(* the two request entry points getExpressionContextInfo and               *)
(* getConformingMethodList, their shared request lifecycle                 *)
(* (swiftTypeContextInfoImpl / swiftConformingMethodListImpl) and the      *)
(* marshalling of engine results into a text arena (SmallString SS) that   *)
(* is indexed by (offset, length) spans.                                   *)
(*                                                                         *)
(* Two specifications share the module:                                    *)
(*   Spec     the request lifecycle, several requests running concurrently *)
(*            against one language-support object;                         *)
(*   SpecEnc  one marshalling callback, taken append by append.            *)
(***************************************************************************)
EXTENDS Integers, Sequences, FiniteSets, TLC

\* ------------------------------------------------------------------ bounds
\* Requests issued in one run, over all threads.
MaxRequests == 2
\* Results the engine's second pass may produce in one request.
MaxResults == 2
\* Top-level items in one handleResults callback (encoder specification).
MaxItems == 2
\* Members over all the items of one callback (encoder specification).
MaxMembers == 2

None == "none"
Threads == {"t1", "t2"}
Kinds == {"TypeContext", "ConformingMethods"}

\* ------------------------------------------------- text: strings as bytes
Cat3(a, b, c) == a \o b \o c

\* ----------------------------------------------- the engine's renderers
\* Types and declarations are opaque engine objects; each renderer is a
\* table from the object to the bytes it prints.
Types == {"Int", "Err"}
Decls == {"zero", "make", "objc", "objcPlain", "macro"}

\* Type::print
PrintType(ty) ==
  CASE ty = "Int"  -> <<"I", "n", "t">>
    [] ty = "Self" -> <<"S", "e", "l", "f">>
    [] OTHER       -> <<"_">>

\* SwiftLangSupport::printTypeUSR; a type without a USR prints nothing.
PrintTypeUSR(ty) ==
  CASE ty = "Int"  -> <<"$", "S", "i">>
    [] ty = "Self" -> <<"$", "x">>
    [] OTHER       -> <<>>

\* member->getFullName().print
PrintFullName(d) ==
  CASE d = "zero"      -> <<"z">>
    [] d = "make"      -> <<"m", "(", ":", ")">>
    [] d = "objc"      -> <<"o">>
    [] d = "objcPlain" -> <<"p">>
    [] OTHER           -> <<"M">>

\* SwiftLangSupport::printMemberDeclDescription(member, baseTy, usePlaceholder)
PrintMemberDeclDescription(d, baseTy, usePlaceholder) ==
  CASE d = "make" ->
         IF usePlaceholder
           THEN Cat3(<<"m", "(", "<", "#">>, PrintType(baseTy), <<"#", ">", ")">>)
           ELSE Cat3(<<"m", "(">>, PrintType(baseTy), <<")">>)
    [] OTHER -> PrintFullName(d)

\* cast<FuncDecl>(member)->getMethodInterfaceType(): the declared result type.
DeclaredResult(d) ==
  CASE d = "zero" -> "Self"
    [] d = "make" -> "Self"
    [] OTHER      -> "Int"

\* The result of the method's interface type, not substituted.
DeclaredResultOnly(exprTy, d) == DeclaredResult(d)

\* ExprType->getTypeOfMember(module, member, funcTy) ... ->getResult():
\* the result type with the subject type substituted as the member's owner.
SubstitutedResult(exprTy, d) ==
  IF DeclaredResult(d) = "Self" THEN exprTy ELSE DeclaredResult(d)

\* member->getClangNode(): "none" for a native declaration, else what the
\* foreign node is.
ClangNode(d) ==
  CASE d = "objc"      -> "decl_with_comment"
    [] d = "objcPlain" -> "decl_no_comment"
    [] d = "macro"     -> "macro"
    [] OTHER           -> None

\* RC->getBriefText(ClangContext)
ClangBriefText(d) == <<"c", "b">>

\* member->getBriefComment(); empty when the declaration has no doc.
SwiftBriefComment(d) == IF d = "zero" THEN <<"d", "o", "c">> ELSE <<>>

\* clang::ASTContext::getRawCommentForAnyRedecl(D) != nullptr
HasRawComment(d) == ClangNode(d) = "decl_with_comment"

\* MaybeClangNode.getAsDecl() != nullptr
ClangNodeIsDecl(d) == ClangNode(d) \in {"decl_with_comment", "decl_no_comment"}

\* ------------------------------------------------ engine results (input)
\* One engine result: ide::TypeContextInfoItem {ExpectedTy, ImplicitMembers}
\* or ide::ConformingMethodListResult {ExprType, Members}.
RECURSIVE SeqsUpTo(_, _)
SeqsUpTo(S, n) ==
  IF n = 0 THEN {<<>>}
  ELSE LET shorter == SeqsUpTo(S, n - 1)
       IN shorter \cup {Append(q, x) : q \in {r \in shorter : Len(r) = n - 1}, x \in S}

EngineItem(ty, members) == [ty |-> ty, members |-> members]

\* --------------------------------------------------------- the marshaller
TopFields == <<"TypeName", "TypeUSR">>

\* The span fields of struct MemberInfo, in the order the loop body fills them.
MemberFields(kind) ==
  IF kind = "TypeContext"
    THEN <<"DeclName", "Description", "SourceText">>
    ELSE <<"DeclName", "TypeName", "TypeUSR", "Description", "SourceText">>

FieldSet(q) == {q[i] : i \in 1..Len(q)}

\* What is printed to OS for one field.
FieldText(f, m, ty, d) ==
  IF m = 0
    THEN (IF f = "TypeName" THEN PrintType(ty) ELSE PrintTypeUSR(ty))
    ELSE CASE f = "DeclName"    -> PrintFullName(d)
           [] f = "TypeName"    -> PrintType(SubstitutedResult(ty, d))
           [] f = "TypeUSR"     -> PrintTypeUSR(SubstitutedResult(ty, d))
           [] f = "Description" -> PrintMemberDeclDescription(d, ty, FALSE)
           [] OTHER             -> PrintMemberDeclDescription(d, ty, TRUE)

\* MemberInfo() {}: every Begin and Length 0, BriefComment an empty StringRef.
NewMemberInfo(kind) ==
  [spans |-> [f \in FieldSet(MemberFields(kind)) |-> [Begin |-> 0, Length |-> 0]],
   BriefComment |-> <<>>]

\* SmallString<512> SS with no span recorded yet; arena names the storage
\* SS lives in, resultTy is the local of the conforming-methods loop body.
NewEncoder ==
  [arena |-> 0,
   SS |-> <<>>,
   resultTy |-> None,
   Top |-> [f \in FieldSet(TopFields) |-> [Begin |-> 0, Length |-> 0]],
   Members |-> <<>>]

\* The fields are filled last to first.
MemberOpsReversed(kind, i) ==
  <<[op |-> "emplace", m |-> i, f |-> None]>>
  \o (IF kind = "ConformingMethods"
        THEN <<[op |-> "resultTy", m |-> i, f |-> None]>> ELSE <<>>)
  \o [j \in 1..Len(MemberFields(kind)) |->
        [op |-> "append", m |-> i,
         f |-> MemberFields(kind)[Len(MemberFields(kind)) + 1 - j]]]
  \o <<[op |-> "brief", m |-> i, f |-> None]>>

\* The statements of the encoding part of the callback, in program order:
\* the two top-level fields, then per member emplace_back, for conforming
\* methods the computation of resultTy, the member's fields and its doc
\* brief.
MemberOps(kind, i) ==
  <<[op |-> "emplace", m |-> i, f |-> None]>>
  \o (IF kind = "ConformingMethods"
        THEN <<[op |-> "resultTy", m |-> i, f |-> None]>> ELSE <<>>)
  \o [j \in 1..Len(MemberFields(kind)) |->
        [op |-> "append", m |-> i, f |-> MemberFields(kind)[j]]]
  \o <<[op |-> "brief", m |-> i, f |-> None]>>

RECURSIVE AllMemberOps(_, _)
AllMemberOps(kind, n) ==
  IF n = 0 THEN <<>> ELSE AllMemberOps(kind, n - 1) \o MemberOps(kind, n)

EncodeOps(kind, item) ==
  [j \in 1..Len(TopFields) |-> [op |-> "append", m |-> 0, f |-> TopFields[j]]]
  \o AllMemberOps(kind, Len(item.members))

\* The length is taken as SS.size(), the begin not subtracted.
SpanWrittenNoSubtract(before, after) ==
  [Begin |-> Len(before), Length |-> Len(after)]

\* The length leaves the last byte written out.
SpanWrittenShort(before, after) ==
  [Begin |-> Len(before),
   Length |-> IF Len(after) > Len(before) THEN Len(after) - Len(before) - 1 ELSE 0]

\* X.Begin = SS.size(); print(OS); X.Length = SS.size() - X.Begin
SpanWritten(before, after) ==
  [Begin |-> Len(before), Length |-> Len(after) - Len(before)]

\* The foreign node is never looked at.
ResolveBriefNativeOnly(d, default) == SwiftBriefComment(d)

\* The DocBrief statement: the foreign node's raw comment, the declaration's
\* own brief comment, or the default left by MemberInfo().
ResolveBrief(d, default) ==
  IF ClangNode(d) # None
    THEN (IF ClangNodeIsDecl(d) /\ HasRawComment(d) THEN ClangBriefText(d) ELSE default)
    ELSE SwiftBriefComment(d)

\* One statement of the encoding, applied to the encoder's state.
ApplyOp(kind, item, enc, o) ==
  LET back == Len(enc.Members)
      d == IF o.m = 0 THEN None ELSE item.members[o.m]
  IN CASE o.op = "emplace" ->
            [enc EXCEPT !.Members = Append(@, NewMemberInfo(kind))]
       [] o.op = "resultTy" ->
            [enc EXCEPT !.resultTy = SubstitutedResult(item.ty, d)]
       [] o.op = "brief" ->
            [enc EXCEPT !.Members[back].BriefComment = ResolveBrief(d, @)]
       [] OTHER ->
            LET text == IF o.m # 0 /\ o.f = "TypeName" THEN PrintType(enc.resultTy)
                        ELSE IF o.m # 0 /\ o.f = "TypeUSR" THEN PrintTypeUSR(enc.resultTy)
                        ELSE FieldText(o.f, o.m, item.ty, d)
                after == enc.SS \o text
                span == SpanWritten(enc.SS, after)
            IN IF o.m = 0
                 THEN [enc EXCEPT !.SS = after, !.Top[o.f] = span]
                 ELSE [enc EXCEPT !.SS = after, !.Members[back].spans[o.f] = span]

RECURSIVE RunOps(_, _, _, _, _)
RunOps(kind, item, enc, ops, n) ==
  IF n = 0 THEN enc
  ELSE ApplyOp(kind, item, RunOps(kind, item, enc, ops, n - 1), ops[n])

\* The encoder's state when the member loop has ended.
Encode(kind, item) ==
  RunOps(kind, item, NewEncoder, EncodeOps(kind, item), Len(EncodeOps(kind, item)))

\* StringRef(SS.begin() + Begin, Length): the bytes a reader of the view finds
\* while SS is alive.
StringRef(SS, span) == SubSeq(SS, span.Begin + 1, span.Begin + span.Length)

\* The SK member built from one MemberInfo (the push_back of the second loop).
SKMember(kind, SS, info) ==
  [f \in FieldSet(MemberFields(kind)) \cup {"DocBrief"} |->
     IF f = "DocBrief" THEN info.BriefComment ELSE StringRef(SS, info.spans[f])]

\* The second loop: one SK member per MemberInfo, in order.
SKMembers(kind, enc) ==
  [i \in 1..Len(enc.Members) |-> SKMember(kind, enc.SS, enc.Members[i])]

\* The value handed to SKConsumer.handleResult.
SKResult(kind, enc) ==
  [TypeName |-> StringRef(enc.SS, enc.Top["TypeName"]),
   TypeUSR |-> StringRef(enc.SS, enc.Top["TypeUSR"]),
   Members |-> SKMembers(kind, enc)]

\* handleSingleResult / handleResult as a whole.
Marshal(kind, item) == SKResult(kind, Encode(kind, item))

\* ------------------------------------------------------ request inputs
\* llvm::MemoryBuffer *UnresolvedInputFile: an identifier and its text.
BufferText == <<"a", "b">>

\* FileSystem->getRealPath(id, out): the resolved path, or None on an error.
GetRealPath(id) == IF id = "link.swift" THEN "/real.swift" ELSE None

\* ide::makeCodeCompletionMemoryBuffer(buf, Offset, id): Offset is clamped to
\* the buffer and a NUL completion token is inserted there.
ClampOffset(text, off) == IF off > Len(text) THEN Len(text) ELSE off

MakeCodeCompletionMemoryBuffer(text, off, id) ==
  [id |-> id,
   text |-> Cat3(SubSeq(text, 1, ClampOffset(text, off)), <<"NUL">>,
                 SubSeq(text, ClampOffset(text, off) + 1, Len(text)))]

\* getFileSystem(vfsOptions, None, error): None and an error text on failure.
GetFileSystem(vfs) ==
  IF vfs = "badvfs"
    THEN [fs |-> None, error |-> "unknown vfs"]
    ELSE [fs |-> "fs", error |-> ""]

\* SwiftASTManager::initCompilerInvocation(Invocation, Args, ..., Error)
InitCompilerInvocation(args) ==
  CASE args = "badargs"  -> [Failed |-> TRUE, inputs |-> 0, error |-> "error parsing arguments"]
    [] args = "noinputs" -> [Failed |-> FALSE, inputs |-> 0, error |-> ""]
    [] OTHER             -> [Failed |-> FALSE, inputs |-> 1, error |-> ""]

NoInputsMessage == "no input filenames specified"
SetupFailedMessage == "failed to setup compiler instance"

\* The requests a caller issues: (vfsOptions, Args, buffer identifier, Offset).
RequestInputs ==
  { [vfs |-> "badvfs", args |-> "main.swift", file |-> "link.swift", offset |-> 1],
    [vfs |-> None,     args |-> "badargs",    file |-> "link.swift", offset |-> 1],
    [vfs |-> None,     args |-> "noinputs",   file |-> "mem.swift",  offset |-> 1],
    [vfs |-> None,     args |-> "main.swift", file |-> "link.swift", offset |-> 1],
    [vfs |-> None,     args |-> "main.swift", file |-> "mem.swift",  offset |-> 3] }

\* What the engine's parser state can hold: the results its second pass
\* produces, in emission order: zero to MaxResults results, alternating
\* between two items.
SampleResults(n) ==
  [i \in 1..n |-> IF i % 2 = 1 THEN EngineItem("Int", <<"zero", "make">>)
                              ELSE EngineItem("Err", <<"objc">>)]

ParserStates == {SampleResults(n) : n \in 0..MaxResults}

\* ---------------------------------------------------------------- state
VARIABLES
  th,          \* per thread: the request it runs (locals of the entry point)
  CachedInst,  \* CompletionInstance's cached CompilerInstance
  pin,         \* the thread holding the completion instance, or None
  nextInst,    \* identity of the next CompilerInstance created
  started,     \* requests issued so far
  lastAcq,     \* the latest acquisition: None if it failed, else its record
  enc          \* the marshalling callback (encoder specification)

vars == <<th, CachedInst, pin, nextInst, started, lastAcq, enc>>

\* The key of an instance that was never set up.
NoKey == [args |-> None, buffer |-> [id |-> None, text |-> <<>>], offset |-> 0]

\* pps: the persistent parser state (hasPPS: whether there is one);
\* diag: the diagnostic consumers attached.
NoInstance == [id |-> 0, key |-> NoKey, hasPPS |-> FALSE, pps |-> <<>>, diag |-> {}]

NoAcquisition ==
  [ok |-> FALSE, key |-> NoKey, kind |-> None, CI |-> 0, fresh |-> FALSE,
   parsed |-> FALSE, succ |-> <<>>]

IdleThread ==
  [pc |-> "idle", call |-> 0, kind |-> None, in |-> None, Offset |-> 0,
   newBuffer |-> NoKey.buffer, error |-> "", CI |-> 0, fresh |-> FALSE,
   hadPPS |-> FALSE, cb |-> 0,
   succ |-> <<>>, fail |-> <<>>, trace |-> <<>>, prev |-> NoAcquisition]

\* The request's ForwardingDiagnosticConsumer CIDiags.
CIDiags(t) == <<t, th[t].call>>

EncIdle == [pc |-> "off"]

Init ==
  /\ th = [t \in Threads |-> IdleThread]
  /\ CachedInst = NoInstance
  /\ pin = None
  /\ nextInst = 1
  /\ started = 0
  /\ lastAcq = NoAcquisition
  /\ enc = EncIdle

Step(r, name) == [r EXCEPT !.trace = Append(@, name)]

\* The error text does not reach the entry point (Error taken by value).
FailedLosingText(r) == [r EXCEPT !.fail = Append(@, ""), !.pc = "done"]

\* The failure is reported and the function goes on to the acquisition
\* instead of returning.
FailedFallsThrough(r) ==
  [r EXCEPT !.fail = Append(@, r.error),
            !.pc = IF \E i \in 1..Len(r.trace) : r.trace[i] = "acquire"
                     THEN "done" ELSE "configured"]

\* SKConsumer.failed(error); the entry point returns.
Failed(r) == [r EXCEPT !.fail = Append(@, r.error), !.pc = "done"]

\* A caller enters getExpressionContextInfo or getConformingMethodList.
Begin(t) ==
  /\ th[t].pc \in {"idle", "done"}
  /\ started < MaxRequests
  /\ \E k \in Kinds, i \in RequestInputs :
       th' = [th EXCEPT ![t] =
                [IdleThread EXCEPT !.pc = "entered", !.call = started + 1,
                                   !.kind = k, !.in = i, !.Offset = i.offset]]
  /\ started' = started + 1
  /\ UNCHANGED <<CachedInst, pin, nextInst, lastAcq, enc>>

\* getFileSystem; on failure SKConsumer.failed(error) and return.
ResolveFileSystem(t) ==
  /\ th[t].pc = "entered"
  /\ LET r == Step(th[t], "fs")
         got == GetFileSystem(r.in.vfs)
     IN th' = [th EXCEPT ![t] =
                 IF got.fs = None
                   THEN Failed([r EXCEPT !.error = got.error])
                   ELSE [r EXCEPT !.pc = "impl"]]
  /\ UNCHANGED <<CachedInst, pin, nextInst, started, lastAcq, enc>>

\* The identifier is whatever getRealPath left, also when it failed.
BufferIdentifierNoFallback(file) == GetRealPath(file)

\* bufferIdentifier: the real path, or on an error of getRealPath the
\* identifier of the unresolved input file.
BufferIdentifier(file) ==
  LET real == GetRealPath(file)
  IN IF real = None THEN file ELSE real

\* Resolve symlinks for the input file and make the completion buffer.
PatchBuffer(t) ==
  /\ th[t].pc = "impl"
  /\ LET r == Step(th[t], "patch")
         bufferIdentifier == BufferIdentifier(r.in.file)
     IN th' = [th EXCEPT ![t] =
                 [r EXCEPT !.pc = "patched",
                           !.Offset = ClampOffset(BufferText, r.Offset),
                           !.newBuffer = MakeCodeCompletionMemoryBuffer(
                                           BufferText, r.Offset, bufferIdentifier)]]
  /\ UNCHANGED <<CachedInst, pin, nextInst, started, lastAcq, enc>>

\* Invocation.getFrontendOptions().InputsAndOutputs.hasInputs()
HasInputsNever(inv) == TRUE

HasInputs(inv) == inv.inputs > 0

\* initCompilerInvocation and the hasInputs test.
BuildInvocation(t) ==
  /\ th[t].pc = "patched"
  /\ LET r == Step(th[t], "config")
         inv == InitCompilerInvocation(r.in.args)
     IN th' = [th EXCEPT ![t] =
                 IF inv.Failed
                   THEN Failed([r EXCEPT !.error = inv.error])
                 ELSE IF ~HasInputs(inv)
                   THEN Failed([r EXCEPT !.error = NoInputsMessage])
                 ELSE [r EXCEPT !.pc = "configured"]]
  /\ UNCHANGED <<CachedInst, pin, nextInst, started, lastAcq, enc>>

\* The completion instance is handed out without regard to other requests.
PinAlwaysFree(t) == TRUE

\* The completion instance can be pinned: no other request holds it.
PinFree(t) == pin = None

\* auto CompletionInst = Lang.getCompletionInstance(): the pin is held by this
\* local until the function returns.
PinCompletionInstance(t) ==
  /\ th[t].pc = "configured"
  /\ PinFree(t)
  /\ pin' = t
  /\ th' = [th EXCEPT ![t] = [Step(@, "pin") EXCEPT !.pc = "pinned"]]
  /\ UNCHANGED <<CachedInst, nextInst, started, lastAcq, enc>>

\* What the cached instance is keyed by.
InstanceKey(r) == [args |-> r.in.args, buffer |-> r.newBuffer, offset |-> r.Offset]

\* CompletionInst->getCompilerInstance(Invocation, FileSystem, newBuffer,
\* Offset, Error, &CIDiags): the cached instance when its key matches, a new
\* one otherwise, or a failure; the consumer is attached to the instance.
AcquireOutcomes == {"ok", "fail", "fail_attached"}

InstanceAfter(t, outcome) ==
  LET key == InstanceKey(th[t])
  IN CASE outcome = "ok" ->
            IF CachedInst.id # 0 /\ CachedInst.key = key
              THEN [CachedInst EXCEPT !.diag = @ \cup {CIDiags(t)}]
              ELSE [id |-> nextInst, key |-> key, hasPPS |-> FALSE, pps |-> <<>>,
                    diag |-> {CIDiags(t)}]
       [] outcome = "fail_attached" ->
            [id |-> nextInst, key |-> NoKey, hasPPS |-> FALSE, pps |-> <<>>,
             diag |-> {CIDiags(t)}]
       [] OTHER -> CachedInst

GetCompilerInstance(t) ==
  /\ th[t].pc = "pinned"
  /\ \E outcome \in AcquireOutcomes :
       LET r == Step(th[t], "acquire")
           inst == InstanceAfter(t, outcome)
       IN IF outcome = "ok"
            THEN /\ CachedInst' = inst
                 /\ th' = [th EXCEPT ![t] =
                             [r EXCEPT !.pc = "acquired", !.CI = inst.id,
                                       !.fresh = (inst.id = nextInst),
                                       !.hadPPS = inst.hasPPS,
                                       !.prev = lastAcq]]
                 /\ pin' = pin
                 /\ lastAcq' = lastAcq
            ELSE \* return false: SWIFT_DEFER is not yet in scope, nothing is detached
                 /\ CachedInst' = inst
                 /\ th' = [th EXCEPT ![t] =
                             Failed([r EXCEPT !.error = SetupFailedMessage])]
                 /\ pin' = None
                 /\ lastAcq' = NoAcquisition
  /\ nextInst' = IF CachedInst'.id = nextInst THEN nextInst + 1 ELSE nextInst
  /\ UNCHANGED <<started, enc>>

\* The parse is run whether or not the instance is reused.
NeedsParseAlways(inst) == TRUE

\* The parse is never run.
NeedsParseNever(inst) == FALSE

\* !CI->hasPersistentParserState()
NeedsParse(inst) == ~inst.hasPPS

\* if (!CI->hasPersistentParserState()) CI->performParseAndResolveImportsOnly();
ParseIfNeeded(t) ==
  /\ th[t].pc = "acquired"
  /\ IF NeedsParse(CachedInst)
       THEN /\ \E ps \in ParserStates : CachedInst' = [CachedInst EXCEPT !.hasPPS = TRUE, !.pps = ps]
            /\ th' = [th EXCEPT ![t] = [Step(@, "parse") EXCEPT !.pc = "parsed"]]
       ELSE /\ CachedInst' = CachedInst
            /\ th' = [th EXCEPT ![t].pc = "parsed"]
  /\ UNCHANGED <<pin, nextInst, started, lastAcq, enc>>

\* CI->getPersistentParserState(): what the second pass works from.
EngineResults(inst) == inst.pps

\* performCodeCompletionSecondPass is entered with the callbacks factory.
StartSecondPass(t) ==
  /\ th[t].pc = "parsed"
  /\ th' = [th EXCEPT ![t] = [Step(@, "pass") EXCEPT !.pc = "completing"]]
  /\ UNCHANGED <<CachedInst, pin, nextInst, started, lastAcq, enc>>

\* The second pass hands its next result to the consumer, which marshals it
\* and calls SKConsumer.handleResult.
SecondPassCallback(t) ==
  /\ th[t].pc = "completing"
  /\ th[t].cb < Len(EngineResults(CachedInst))
  /\ th' = [th EXCEPT ![t] =
              [Step(@, "result") EXCEPT
                 !.cb = @ + 1,
                 !.succ = Append(@, Marshal(th[t].kind,
                                            EngineResults(CachedInst)[th[t].cb + 1]))]]
  /\ UNCHANGED <<CachedInst, pin, nextInst, started, lastAcq, enc>>

\* The impl function's result is tested without the negation.
ReturnTrueThenFailed(r) == [r EXCEPT !.fail = Append(@, r.error), !.pc = "done"]

\* The function returns false when the second pass delivered nothing.
ReturnFalseWhenEmpty(r) ==
  IF r.succ = <<>>
    THEN [r EXCEPT !.fail = Append(@, r.error), !.pc = "done"]
    ELSE [r EXCEPT !.pc = "done"]

\* return true: the entry point's if (!impl(...)) does not call failed.
ReturnTrue(r) == [r EXCEPT !.pc = "done"]

\* The second pass returns; SWIFT_DEFER removes the consumer, the pin is
\* dropped and the function returns true.
SecondPassReturn(t) ==
  /\ th[t].pc = "completing"
  /\ th[t].cb = Len(EngineResults(CachedInst))
  /\ CachedInst' = [CachedInst EXCEPT !.diag = @ \ {CIDiags(t)}]
  /\ pin' = None
  /\ th' = [th EXCEPT ![t] = ReturnTrue(Step(@, "return"))]
  /\ lastAcq' = [ok |-> TRUE, key |-> InstanceKey(th[t]), kind |-> th[t].kind, CI |-> th[t].CI,
                 fresh |-> th[t].fresh,
                 parsed |-> \E i \in 1..Len(th[t].trace) : th[t].trace[i] = "parse",
                 succ |-> th[t].succ]
  /\ UNCHANGED <<nextInst, started, enc>>

Next ==
  \E t \in Threads :
    \/ Begin(t)
    \/ ResolveFileSystem(t)
    \/ PatchBuffer(t)
    \/ BuildInvocation(t)
    \/ PinCompletionInstance(t)
    \/ GetCompilerInstance(t)
    \/ ParseIfNeeded(t)
    \/ StartSecondPass(t)
    \/ SecondPassCallback(t)
    \/ SecondPassReturn(t)

Spec == Init /\ [][Next]_vars

\* ================================================ the marshalling callback
\* One callback of the second pass, statement by statement: handleResults
\* with its array of items (type context), or handleResult with its one
\* result (conforming methods).
Items(n) == {EngineItem(ty, ms) : ty \in Types, ms \in SeqsUpTo(Decls, n)}

\* Arrays of exactly n items with at most budget members in all.
RECURSIVE ArraysOf(_, _)
ArraysOf(n, budget) ==
  IF n = 0 THEN {<<>>}
  ELSE UNION { {<<it>> \o rest : rest \in ArraysOf(n - 1, budget - Len(it.members))}
               : it \in Items(budget) }

Payloads(kind) ==
  IF kind = "TypeContext"
    THEN UNION {ArraysOf(n, MaxMembers) : n \in 0..MaxItems}
    ELSE ArraysOf(1, MaxMembers)

\* SS is declared once and shared by the invocations.
ReusedEncoder(prev) == [NewEncoder EXCEPT !.SS = prev.SS, !.arena = prev.arena]

\* SmallString<512> SS; a local of the invocation: a new, empty arena.
FreshEncoder(prev) == [NewEncoder EXCEPT !.arena = prev.arena + 1]

\* The second loop takes the infos last to first.
NextInfoReversed(Members, b) == Members[Len(Members) - b + 1]

\* for (auto &info : Members): the b-th info.
NextInfo(Members, b) == Members[b]

\* The view of the description is given the length of the source text.
ViewOfSwapped(info, f) ==
  IF f = "Description"
    THEN [Begin |-> info.spans[f].Begin, Length |-> info.spans["SourceText"].Length]
    ELSE info.spans[f]

\* StringRef X(SS.begin() + info.XBegin, info.XLength): a view is an address
\* into SS and a length.
ViewOf(info, f) == info.spans[f]

\* The SK member of one info, its fields as views.
SKMemberViews(kind, info) ==
  [f \in FieldSet(MemberFields(kind)) \cup {"DocBrief"} |->
     IF f = "DocBrief" THEN info.BriefComment ELSE ViewOf(info, f)]

\* The second loop starts once the top-level fields are written.
EncodingEndedAfterTop(n, ops) == n >= Len(TopFields)

\* The member loop has run to its end: every statement of the encoding part
\* is done.
EncodingEnded(n, ops) == n = Len(ops)

\* SS has gone out of scope before SKConsumer.handleResult is called.
ArenasAtCallScopeEnded(live, a) == live \ {a}

\* The arenas alive when SKConsumer.handleResult(Info) is called: SS is
\* still in scope.
ArenasAtCall(live, a) == live

\* The arenas alive when the invocation has returned: SS and the vector of
\* SK members were its locals.
ArenasAtReturn(live, a) == live \ {a}

InitEnc ==
  /\ th = [t \in Threads |-> IdleThread]
  /\ CachedInst = NoInstance
  /\ pin = None
  /\ nextInst = 1
  /\ started = 0
  /\ lastAcq = NoAcquisition
  /\ \E k \in Kinds : \E p \in Payloads(k) :
       enc = [pc |-> "loop", kind |-> k, Results |-> p, item |-> 0,
              e |-> NewEncoder, op |-> 0, log |-> <<>>, b |-> 0, sk |-> <<>>,
              delivered |-> <<>>, steps |-> <<>>, live |-> {}, clobbered |-> {}]

Lifecycle == <<th, CachedInst, pin, nextInst, started, lastAcq>>

DeliveredIdx == 1..Len(enc.delivered)
CurrentItem == enc.Results[enc.item + 1]
CurrentOps == EncodeOps(enc.kind, CurrentItem)

\* The span an append statement has just recorded.
RecordedSpan(e, o) ==
  IF o.m = 0 THEN e.Top[o.f] ELSE e.Members[Len(e.Members)].spans[o.f]

\* handleSingleResult / handleResult is entered for the next item.
BeginItem ==
  /\ enc.pc = "loop"
  /\ enc.item < Len(enc.Results)
  /\ enc' = [enc EXCEPT !.pc = "encode", !.e = FreshEncoder(enc.e),
                        !.op = 0, !.log = <<>>, !.b = 0, !.sk = <<>>,
                        !.steps = <<>>,
                        !.live = @ \cup {FreshEncoder(enc.e).arena}]
  /\ UNCHANGED Lifecycle

\* The next statement of the encoding part.
EncodeStep ==
  /\ enc.pc = "encode"
  /\ enc.op < Len(CurrentOps)
  /\ LET o == CurrentOps[enc.op + 1]
         e2 == ApplyOp(enc.kind, CurrentItem, enc.e, o)
     IN enc' = [enc EXCEPT
                  !.e = e2,
                  !.op = @ + 1,
                  !.log = IF o.op = "append"
                            THEN Append(@, [m |-> o.m, f |-> o.f,
                                            span |-> RecordedSpan(e2, o)])
                            ELSE @,
                  !.steps = Append(@, [m |-> o.m,
                                       step |-> IF o.op = "append" THEN o.f ELSE o.op]),
                  !.pc = IF EncodingEnded(enc.op + 1, CurrentOps)
                           THEN "build" ELSE "encode"]
  /\ UNCHANGED Lifecycle

\* One turn of the second loop: the views of one member are pushed back.
BuildStep ==
  /\ enc.pc = "build"
  /\ enc.b < Len(enc.e.Members)
  /\ enc' = [enc EXCEPT
               !.b = @ + 1,
               !.sk = Append(@, SKMemberViews(enc.kind,
                                              NextInfo(enc.e.Members, enc.b + 1)))]
  /\ UNCHANGED Lifecycle

\* The top-level views are made and SKConsumer.handleResult is called with
\* the value.
Deliver ==
  /\ enc.pc = "build"
  /\ enc.b = Len(enc.e.Members)
  /\ enc' = [enc EXCEPT
               !.delivered = Append(@, [item |-> enc.item + 1,
                                        arena |-> enc.e.arena,
                                        SS |-> enc.e.SS,
                                        TypeName |-> enc.e.Top["TypeName"],
                                        TypeUSR |-> enc.e.Top["TypeUSR"],
                                        Members |-> enc.sk]),
               !.live = ArenasAtCall(@, enc.e.arena),
               !.pc = "handler"]
  /\ UNCHANGED Lifecycle

\* SKConsumer.handleResult has returned and the invocation returns: its
\* locals are gone. What the storage of ended invocations holds from now on
\* is not defined: it may keep the bytes or be overwritten.
ReturnFromItem ==
  /\ enc.pc = "handler"
  /\ \E overwritten \in BOOLEAN :
       enc' = [enc EXCEPT
                 !.live = ArenasAtReturn(@, enc.e.arena),
                 !.clobbered = IF overwritten
                                 THEN {enc.delivered[k].arena : k \in DeliveredIdx}
                                        \ ArenasAtReturn(enc.live, enc.e.arena)
                                 ELSE @,
                 !.item = @ + 1,
                 !.pc = "loop"]
  /\ UNCHANGED Lifecycle

\* The callback returns to the engine.
EndCallback ==
  /\ enc.pc = "loop"
  /\ enc.item = Len(enc.Results)
  /\ enc' = [enc EXCEPT !.pc = "done"]
  /\ UNCHANGED Lifecycle

NextEnc ==
  BeginItem \/ EncodeStep \/ BuildStep \/ Deliver \/ ReturnFromItem \/ EndCallback

SpecEnc == InitEnc /\ [][NextEnc]_vars

\* ====================================================== request claims
Active(t) == th[t].pc # "idle"
Done(t) == th[t].pc = "done"
Has(q, x) == \E i \in 1..Len(q) : q[i] = x
Count(q, x) == Cardinality({i \in 1..Len(q) : q[i] = x})
Last(q) == q[Len(q)]

\* C1: in one request the consumer gets zero or more results and no failure,
\* or exactly one failure and no result; failed is never called twice and
\* never in a request in which a result was delivered.
C1_ResultsOrOneFailure ==
  \A t \in Threads :
    /\ Len(th[t].fail) <= 1
    /\ ~(Len(th[t].fail) >= 1 /\ Len(th[t].succ) >= 1)

\* Both outcomes at once: one request ended with two results and no failure,
\* another with one failure and no result.
C1_Witness ==
  \E t, u \in Threads :
    /\ Done(t) /\ Len(th[t].succ) = 2 /\ th[t].fail = <<>>
    /\ Done(u) /\ Len(th[u].fail) = 1 /\ th[u].succ = <<>>

ZeroInputs(t) ==
  /\ Active(t)
  /\ GetFileSystem(th[t].in.vfs).fs # None
  /\ ~InitCompilerInvocation(th[t].in.args).Failed
  /\ InitCompilerInvocation(th[t].in.args).inputs = 0

\* C2: arguments that parse to a configuration with zero input files end the
\* request with the one failure "no input filenames specified" and no result;
\* the instance is never acquired, nothing is parsed, no second pass runs.
C2_NoInputsFails ==
  \A t \in Threads :
    ZeroInputs(t) =>
      /\ th[t].succ = <<>>
      /\ \A s \in {"pin", "acquire", "parse", "pass", "result"} : ~Has(th[t].trace, s)
      /\ th[t].pc \in {"entered", "impl", "patched", "done"}
      /\ Done(t) => th[t].fail = <<NoInputsMessage>>

C2_Witness ==
  \E t \in Threads : ZeroInputs(t) /\ Done(t) /\ th[t].fail = <<NoInputsMessage>>

\* C3: a failure of argument parsing or of the acquisition reports that
\* step's error text and ends the request at that step; argument parsing and
\* acquisition are each attempted at most once in a request.
C3_FailureReportedNoRetry ==
  \A t \in Threads :
    Active(t) =>
      /\ Count(th[t].trace, "config") <= 1
      /\ Count(th[t].trace, "acquire") <= 1
      /\ (Has(th[t].trace, "config") /\ InitCompilerInvocation(th[t].in.args).Failed) =>
            /\ Done(t)
            /\ Last(th[t].trace) = "config"
            /\ th[t].fail = <<InitCompilerInvocation(th[t].in.args).error>>
            /\ th[t].succ = <<>>
      /\ (Has(th[t].trace, "acquire") /\ th[t].CI = 0) =>
            /\ Done(t)
            /\ Last(th[t].trace) = "acquire"
            /\ th[t].fail = <<SetupFailedMessage>>
            /\ th[t].succ = <<>>

\* One request failed at argument parsing and another at the acquisition.
C3_Witness ==
  \E t, u \in Threads :
    /\ Done(t) /\ Last(th[t].trace) = "config" /\ th[t].in.args = "badargs"
    /\ Len(th[t].fail) = 1
    /\ Done(u) /\ Last(th[u].trace) = "acquire" /\ th[u].fail = <<SetupFailedMessage>>

\* C4: when a request has returned, whatever its outcome, its diagnostic
\* consumer is no longer attached to the engine instance.
C4_ConsumerDetachedAtReturn ==
  \A t \in Threads : Done(t) => CIDiags(t) \notin CachedInst.diag

\* Between the acquisition and the return of the request.
Holding(t) == th[t].pc \in {"acquired", "parsed", "completing"}

\* C5: no two requests hold the engine instance at the same time, so none
\* parses or completes on it while another is between acquisition and return.
C5_ExclusiveInstance ==
  \A t, u \in Threads :
    /\ (t # u) => ~(Holding(t) /\ Holding(u))
    /\ Holding(t) => pin = t

\* Contention: one request is in its second pass, has delivered a result, and
\* the other has built its invocation and waits for the instance.
C5_Witness ==
  \E t, u \in Threads :
    /\ t # u
    /\ th[t].pc = "completing" /\ th[t].cb >= 1
    /\ th[u].pc = "configured"

\* The request of t ended in success right after a request with the same
\* key and entry point that created the instance.
BackToBack(t) ==
  /\ Done(t) /\ Last(th[t].trace) = "return"
  /\ th[t].prev.ok
  /\ th[t].prev.fresh
  /\ th[t].prev.key = InstanceKey(th[t])
  /\ th[t].prev.kind = th[t].kind

Resolve(r, view) == StringRef(r.SS, view)

\* A delivered value with every view read.
ResolvedValue(kind, r) ==
  [TypeName |-> Resolve(r, r.TypeName),
   TypeUSR |-> Resolve(r, r.TypeUSR),
   Members |-> [i \in 1..Len(r.Members) |->
                  [f \in DOMAIN r.Members[i] |->
                     IF f = "DocBrief" THEN r.Members[i][f]
                                       ELSE Resolve(r, r.Members[i][f])]]]

SourceOf(r) == enc.Results[r.item]

\* C7: a delivered value has one member record per engine member, the i-th
\* record built from the i-th member; nothing is reordered, dropped or
\* deduplicated.
C7_MemberOrderKept ==
  \A k \in DeliveredIdx :
    LET r == enc.delivered[k]
        it == SourceOf(r)
    IN /\ Len(r.Members) = Len(it.members)
       /\ \A i \in 1..Len(r.Members) :
            /\ Resolve(r, r.Members[i]["DeclName"]) = PrintFullName(it.members[i])
            /\ Resolve(r, r.Members[i]["Description"]) =
                 PrintMemberDeclDescription(it.members[i], it.ty, FALSE)
            /\ Resolve(r, r.Members[i]["SourceText"]) =
                 PrintMemberDeclDescription(it.members[i], it.ty, TRUE)
            /\ r.Members[i]["DocBrief"] = ResolveBrief(it.members[i], <<>>)

\* Delivered: a value whose two members are the same declaration.
C7_Witness ==
  /\ enc.pc = "done"
  /\ \E k \in DeliveredIdx :
       LET ms == SourceOf(enc.delivered[k]).members
       IN Len(enc.delivered[k].Members) = 2 /\ ms[1] = ms[2]

\* C8: N items in one type-context callback give N calls of the success
\* handler, the k-th with the k-th item, each from an arena of its own that
\* started empty and holds nothing of another result.
C8_OneCallPerItemOwnArena ==
  enc.kind = "TypeContext" =>
    /\ enc.pc = "done" => Len(enc.delivered) = Len(enc.Results)
    /\ (enc.pc = "encode" /\ enc.op = 0) => enc.e.SS = <<>>
    /\ \A k \in DeliveredIdx :
         LET r == enc.delivered[k]
         IN /\ r.item = k
            /\ ResolvedValue(enc.kind, r) = Marshal(enc.kind, enc.Results[k])
            /\ r.TypeName.Begin = 0
            /\ Len(r.SS) = Len(Encode(enc.kind, enc.Results[k]).SS)
            /\ \A j \in DeliveredIdx : j # k => enc.delivered[j].arena # r.arena

C8_Witness ==
  /\ enc.pc = "done"
  /\ enc.kind = "TypeContext"
  /\ Len(enc.delivered) = 2
  /\ enc.Results[1] # enc.Results[2]
  /\ \A k \in 1..2 : Len(enc.Results[k].members) = 1

\* C9: every field's view, read against the finished arena, is byte for byte
\* the text the renderer wrote for the field; an empty text is a span of
\* length zero at an offset inside the arena.
C9_SpanRoundTrip ==
  \A k \in DeliveredIdx :
    LET r == enc.delivered[k]
        it == SourceOf(r)
        Good(view, text) ==
          /\ Resolve(r, view) = text
          /\ view.Length = Len(text)
          /\ view.Begin \in 0..Len(r.SS)
    IN /\ Good(r.TypeName, PrintType(it.ty))
       /\ Good(r.TypeUSR, PrintTypeUSR(it.ty))
       /\ \A i \in 1..Len(r.Members) :
            \A f \in FieldSet(MemberFields(enc.kind)) :
              Good(r.Members[i][f], FieldText(f, i, it.ty, it.members[i]))

\* Delivered: a conforming-methods member whose result-type identifier is
\* empty and lies after other bytes, beside fields that are not empty.
C9_Witness ==
  \E k \in DeliveredIdx :
    LET r == enc.delivered[k]
    IN /\ enc.kind = "ConformingMethods"
       /\ Len(r.Members) = 2
       /\ r.Members[2]["TypeUSR"].Length = 0
       /\ r.Members[2]["TypeUSR"].Begin > 0
       /\ r.Members[2]["TypeName"].Length > 0
       /\ r.TypeUSR.Length = 0

\* The span the encoder holds now for a field recorded earlier.
HeldSpan(l) ==
  IF l.m = 0 THEN enc.e.Top[l.f] ELSE enc.e.Members[l.m].spans[l.f]

\* C10: during and after the encoding of a result every span recorded so far
\* ends inside the arena, and is still what it was when it was recorded: no
\* later append, and not the making of the views, changes it.
C10_SpansInsideAndStable ==
  /\ \A i \in 1..Len(enc.log) :
       LET l == enc.log[i]
       IN /\ l.span.Begin + l.span.Length <= Len(enc.e.SS)
          /\ HeldSpan(l) = l.span
          /\ (l.m # 0 /\ l.m <= Len(enc.sk)) => enc.sk[l.m][l.f] = l.span
  /\ \A k \in DeliveredIdx :
       LET r == enc.delivered[k]
       IN /\ r.TypeName.Begin + r.TypeName.Length <= Len(r.SS)
          /\ r.TypeUSR.Begin + r.TypeUSR.Length <= Len(r.SS)
          /\ \A i \in 1..Len(r.Members) :
               \A f \in FieldSet(MemberFields(enc.kind)) :
                 r.Members[i][f].Begin + r.Members[i][f].Length <= Len(r.SS)

\* In the middle of an encoding: spans are recorded, the first is not empty,
\* and appends are still to come.
C10_Witness ==
  /\ enc.pc = "encode"
  /\ Len(enc.log) >= 4
  /\ enc.log[1].span.Length > 0
  /\ enc.op < Len(CurrentOps)

\* =================================================== storage lifetime

\* The storage the views of a delivered value point into is alive and holds
\* the bytes the encoder wrote.
StorageIntact(r) == r.arena \in enc.live /\ r.arena \notin enc.clobbered

\* The success handler is running on the k-th delivered value.
InHandler(k) == enc.pc = "handler" /\ k = Len(enc.delivered)

C12_DocBriefByOrigin ==
  \A k \in DeliveredIdx :
    LET r == enc.delivered[k]
        it == SourceOf(r)
    IN /\ Len(r.Members) = Len(it.members)
       /\ \A i \in 1..Len(r.Members) :
            LET d == it.members[i]
                brief == r.Members[i]["DocBrief"]
            IN CASE ClangNode(d) = "decl_with_comment" -> brief = ClangBriefText(d)
                 [] ClangNode(d) = None -> brief = SwiftBriefComment(d)
                 [] OTHER -> brief = <<>>

\* Delivered: a foreign member with a comment beside a native member without
\* documentation: the first has the foreign brief text, the second is empty.
C12_Witness ==
  \E k \in DeliveredIdx :
    LET r == enc.delivered[k]
    IN /\ SourceOf(r).members = <<"objc", "make">>
       /\ r.Members[1]["DocBrief"] = ClangBriefText("objc")
       /\ r.Members[2]["DocBrief"] = <<>>

\* C13: for a conforming-method member the result-type name and the
\* result-type identifier are both renderings of one type, the declared result
\* with the subject type substituted as the owner: a method declared to
\* return Self on subject type T reports T.
C13_ResultTypeSubstituted ==
  enc.kind = "ConformingMethods" =>
    \A k \in DeliveredIdx :
      LET r == enc.delivered[k]
          it == SourceOf(r)
      IN \A i \in 1..Len(r.Members) :
           LET d == it.members[i]
               ty == IF DeclaredResult(d) = "Self" THEN it.ty ELSE DeclaredResult(d)
           IN /\ Resolve(r, r.Members[i]["TypeName"]) = PrintType(ty)
              /\ Resolve(r, r.Members[i]["TypeUSR"]) = PrintTypeUSR(ty)
              /\ Resolve(r, r.Members[i]["TypeName"]) # PrintType("Self")

\* Delivered: a method declared to return Self, found on subject type Int,
\* whose result-type name reads as Int's.
C13_Witness ==
  \E k \in DeliveredIdx :
    LET r == enc.delivered[k]
    IN /\ enc.kind = "ConformingMethods"
       /\ SourceOf(r).ty = "Int"
       /\ Len(r.Members) >= 1
       /\ DeclaredResult(SourceOf(r).members[1]) = "Self"
       /\ Resolve(r, r.Members[1]["TypeName"]) = PrintType("Int")
       /\ Resolve(r, r.Members[1]["TypeUSR"]) = PrintTypeUSR("Int")

\* =================================================== request lifecycle

\* The request of t has made its completion buffer.
Patched(t) == Active(t) /\ Has(th[t].trace, "patch")

\* C14: when the real path of the input's identifier cannot be resolved, the
\* completion buffer is made under the original identifier and the request
\* goes on to the configuration; when it can, the buffer carries the resolved
\* path. The failure handler is not called for it.
C14_RealPathFallback ==
  \A t \in Threads :
    Patched(t) =>
      /\ GetRealPath(th[t].in.file) = None => th[t].newBuffer.id = th[t].in.file
      /\ GetRealPath(th[t].in.file) # None =>
           th[t].newBuffer.id = GetRealPath(th[t].in.file)
      /\ Last(th[t].trace) = "patch" => th[t].pc = "patched" /\ th[t].fail = <<>>

\* One request whose identifier did not resolve has built its invocation
\* under the original identifier, another carries the resolved path.
C14_Witness ==
  \E t, u \in Threads :
    /\ Patched(t) /\ GetRealPath(th[t].in.file) = None
    /\ Has(th[t].trace, "config") /\ th[t].fail = <<>>
    /\ th[t].newBuffer.id = "mem.swift"
    /\ Patched(u) /\ th[u].newBuffer.id = "/real.swift"

\* The place of a step in the request: getFileSystem, the buffer, the
\* invocation, the pin, the acquisition, the parse, the second pass, its
\* callbacks, its return.
Rank(step) ==
  CASE step = "fs"      -> 1
    [] step = "patch"   -> 2
    [] step = "config"  -> 3
    [] step = "pin"     -> 4
    [] step = "acquire" -> 5
    [] step = "parse"   -> 6
    [] step = "pass"    -> 7
    [] step = "result"  -> 8
    [] step = "return"  -> 9

\* C15: the steps of a request come in the order start, buffer patched,
\* instance acquired, parsed, completed, done: the buffer is patched before
\* the configuration is built, the configuration is built before the
\* acquisition, the second pass runs only on an instance that was acquired,
\* and the success handler is called only between the start of the second
\* pass and its return.
C15_LifecycleOrder ==
  \A t \in Threads :
    LET tr == th[t].trace
    IN /\ \A i, j \in 1..Len(tr) :
            i < j => \/ Rank(tr[i]) < Rank(tr[j])
                     \/ tr[i] = "result" /\ tr[j] = "result"
       /\ Has(tr, "patch") => Has(tr, "fs")
       /\ Has(tr, "config") => Has(tr, "patch")
       /\ Has(tr, "acquire") => Has(tr, "config")
       /\ Has(tr, "pass") => Has(tr, "acquire") /\ th[t].CI # 0
       /\ th[t].pc = "completing" => th[t].CI = CachedInst.id /\ pin = t
       /\ Has(tr, "result") => Has(tr, "pass")
       /\ Len(th[t].succ) = Count(tr, "result")
       /\ Has(tr, "return") => Has(tr, "pass") /\ Done(t)

\* A request went through every step and delivered two results.
C15_Witness ==
  \E t \in Threads :
    th[t].trace = <<"fs", "patch", "config", "pin", "acquire", "parse", "pass",
                    "result", "result", "return">>

\* C16: after a successful acquisition the parse is run once when the
\* instance holds no parser state and not at all when it holds one; the
\* second pass is run exactly once, after that, and on an instance that
\* holds a parser state.
C16_ParseOnceIfNeeded ==
  \A t \in Threads :
    LET tr == th[t].trace
    IN /\ Count(tr, "parse") <= 1 /\ Count(tr, "pass") <= 1
       /\ Has(tr, "parse") => th[t].CI # 0 /\ ~th[t].hadPPS
       /\ th[t].pc \in {"parsed", "completing"} \/ Has(tr, "return") =>
            Count(tr, "parse") = (IF th[t].hadPPS THEN 0 ELSE 1)
       /\ th[t].pc = "completing" => CachedInst.hasPPS
       /\ Has(tr, "pass") => th[t].CI # 0
       /\ Has(tr, "return") => Count(tr, "pass") = 1

\* One request parsed on a new instance and the next, given the instance
\* with its parser state, went to the second pass without a parse.
C16_Witness ==
  \E t \in Threads :
    /\ Done(t) /\ th[t].hadPPS
    /\ th[t].prev.ok /\ th[t].prev.parsed
    /\ Count(th[t].trace, "parse") = 0
    /\ Count(th[t].trace, "pass") = 1

\* C20: the failure handler is called only for a failure before or at the
\* acquisition: once the instance is acquired the request ends in success
\* whatever the parse and the second pass produce, and a failure to resolve
\* the file-system overlay is reported before the buffer is patched and
\* before anything is asked of the engine.
C20_FailureOnlyUpToAcquisition ==
  \A t \in Threads :
    LET tr == th[t].trace
    IN /\ th[t].CI # 0 => th[t].fail = <<>>
       /\ th[t].fail # <<>> =>
            /\ Last(tr) \in {"fs", "config", "acquire"}
            /\ ~Has(tr, "parse") /\ ~Has(tr, "pass") /\ ~Has(tr, "result")
       /\ (Done(t) /\ th[t].CI # 0) => Last(tr) = "return" /\ th[t].fail = <<>>
       /\ (Done(t) /\ GetFileSystem(th[t].in.vfs).fs = None) =>
            /\ tr = <<"fs">>
            /\ th[t].fail = <<GetFileSystem(th[t].in.vfs).error>>
            /\ th[t].newBuffer = IdleThread.newBuffer
            /\ th[t].CI = 0

\* One request ended in success with no result at all after its acquisition,
\* another failed at the file-system overlay.
C20_Witness ==
  \E t, u \in Threads :
    /\ Done(t) /\ th[t].CI # 0 /\ Has(th[t].trace, "parse")
    /\ th[t].succ = <<>> /\ th[t].fail = <<>>
    /\ Done(u) /\ th[u].in.vfs = "badvfs" /\ Len(th[u].fail) = 1

\* =================================================== encoding order

\* The invocation is past its member loop: views are being made or the
\* handler is running.
MakingViews == enc.pc \in {"build", "handler"}

\* C17: within the encoding of one result no span is made into a view until
\* every append for the result, the top-level fields and all fields of all
\* members, is done; from the first view on the arena is what it was then, so
\* no view is made stale by a later append.
C17_ViewsAfterAllAppends ==
  /\ enc.pc = "encode" => enc.sk = <<>> /\ enc.b = 0
  /\ MakingViews =>
       /\ enc.op = Len(CurrentOps)
       /\ enc.e.SS = Encode(enc.kind, CurrentItem).SS
       /\ Len(enc.e.Members) = Len(CurrentItem.members)
       /\ Len(enc.log) = Len(TopFields)
                         + Len(CurrentItem.members) * Len(MemberFields(enc.kind))
  /\ enc.pc = "handler" =>
       /\ enc.delivered[Len(enc.delivered)].SS = enc.e.SS
       /\ Len(enc.sk) = Len(enc.e.Members)

\* The first member's views are made, the second's are not yet, and the arena
\* holds the whole encoding.
C17_Witness ==
  /\ enc.pc = "build"
  /\ Len(enc.sk) = 1
  /\ Len(enc.e.Members) = 2
  /\ Len(enc.e.SS) > 0

\* The steps run so far for member i, the making of its record aside.
MemberSteps(i) ==
  LET OfMember(s) == s.m = i /\ s.step # "emplace"
      run == SelectSeq(enc.steps, OfMember)
  IN [j \in 1..Len(run) |-> run[j].step]

IsPrefix(p, q) == Len(p) <= Len(q) /\ p = SubSeq(q, 1, Len(p))

\* The steps of the encoding come member by member.
MembersNotInterleaved ==
  \A a, b \in 1..Len(enc.steps) : a < b => enc.steps[a].m <= enc.steps[b].m

\* The order of C18 as stated: the result type is computed after the name is
\* interned.
OrderAsStated(kind) ==
  IF kind = "ConformingMethods"
    THEN <<"DeclName", "resultTy", "TypeName", "TypeUSR", "Description",
           "SourceText", "brief">>
    ELSE <<"DeclName", "Description", "SourceText", "brief">>

\* The order of the loop body: for conforming methods the result type is
\* computed first.
OrderInCode(kind) ==
  IF kind = "ConformingMethods"
    THEN <<"resultTy", "DeclName", "TypeName", "TypeUSR", "Description",
           "SourceText", "brief">>
    ELSE <<"DeclName", "Description", "SourceText", "brief">>

\* The description is rendered without placeholders, the source text with.
PlaceholderUse ==
  \A k \in DeliveredIdx :
    LET r == enc.delivered[k]
        it == SourceOf(r)
    IN \A i \in 1..Len(r.Members) :
         /\ Resolve(r, r.Members[i]["Description"])
              = PrintMemberDeclDescription(it.members[i], it.ty, FALSE)
         /\ Resolve(r, r.Members[i]["SourceText"])
              = PrintMemberDeclDescription(it.members[i], it.ty, TRUE)

\* C18 as stated: name; for conforming methods the function type computed
\* and substituted, its result's name and identifier; description; source
\* text; doc brief.
C18_StepsAsStated ==
  /\ MembersNotInterleaved
  /\ \A i \in 1..MaxMembers : IsPrefix(MemberSteps(i), OrderAsStated(enc.kind))

\* C18: for each member, with no step of another member in between: for
\* conforming methods the function type is computed, substituted and its
\* result type taken; then the name is interned; for conforming methods the
\* result type's name and then its identifier; the description with
\* usePlaceholder=false; the source text with usePlaceholder=true; the doc
\* brief.
C18_StepsInCodeOrder ==
  /\ MembersNotInterleaved
  /\ \A i \in 1..MaxMembers : IsPrefix(MemberSteps(i), OrderInCode(enc.kind))
  /\ MakingViews =>
       \A i \in 1..Len(CurrentItem.members) : MemberSteps(i) = OrderInCode(enc.kind)
  /\ PlaceholderUse

\* A conforming-methods result with two members is encoded: each member went
\* through its seven steps, and the descriptions of a delivered member differ
\* with the placeholder.
C18_Witness ==
  /\ enc.kind = "ConformingMethods"
  /\ enc.pc = "handler"
  /\ Len(CurrentItem.members) = 2
  /\ Len(MemberSteps(2)) = 7
  /\ LET r == enc.delivered[Len(enc.delivered)]
     IN Resolve(r, r.Members[2]["Description"]) # Resolve(r, r.Members[2]["SourceText"])

\* The spans, in the order given, start at 0, each starts where the one
\* before ends, and the last ends at size.
Tiles(spans, size) ==
  IF spans = <<>> THEN size = 0
  ELSE /\ spans[1].Begin = 0
       /\ \A i \in 2..Len(spans) :
            spans[i].Begin = spans[i-1].Begin + spans[i-1].Length
       /\ spans[Len(spans)].Begin + spans[Len(spans)].Length = size

RECURSIVE SumLengths(_)
SumLengths(spans) ==
  IF spans = <<>> THEN 0 ELSE spans[1].Length + SumLengths(Tail(spans))

\* The views of a delivered value in the order their fields were written.
RECURSIVE MemberViews(_, _, _)
MemberViews(kind, Members, i) ==
  IF i > Len(Members) THEN <<>>
  ELSE [j \in 1..Len(MemberFields(kind)) |-> Members[i][MemberFields(kind)[j]]]
       \o MemberViews(kind, Members, i + 1)

AllViews(kind, r) == <<r.TypeName, r.TypeUSR>> \o MemberViews(kind, r.Members, 1)

\* C19: the spans recorded in a result's arena tile it: the top-level
\* type-name span starts at 0, every later span starts where the span recorded
\* just before it ends, and the lengths add up to the size of the arena, at
\* every point of the encoding and in every delivered value.
C19_SpansTileArena ==
  /\ enc.pc \in {"encode", "build", "handler"} =>
       LET spans == [i \in 1..Len(enc.log) |-> enc.log[i].span]
       IN /\ Tiles(spans, Len(enc.e.SS))
          /\ SumLengths(spans) = Len(enc.e.SS)
          /\ Len(enc.log) >= 1 => enc.log[1].m = 0 /\ enc.log[1].f = "TypeName"
  /\ \A k \in DeliveredIdx :
       LET r == enc.delivered[k]
       IN /\ Tiles(AllViews(enc.kind, r), Len(r.SS))
          /\ SumLengths(AllViews(enc.kind, r)) = Len(r.SS)

\* Delivered: a conforming-methods value with two members, twelve spans, one
\* of them empty between two that are not.
C19_Witness ==
  \E k \in DeliveredIdx :
    LET r == enc.delivered[k]
        v == AllViews(enc.kind, r)
    IN /\ Len(v) = 12
       /\ \E i \in 2..11 : v[i].Length = 0 /\ v[i-1].Length > 0 /\ v[i+1].Length > 0

====
